---- MODULE Spec2Model ----
(***************************************************************************)
(* ducktape: the static JSON cluster pool (cluster/json.py), the remote    *)
(* account it hands out (cluster/remoteaccount.py) and the mark expansion  *)
(* engine (mark/_mark.py).                                                 *)
(***************************************************************************)
EXTENDS Integers, Sequences, FiniteSets, TLC

\* ------------------------------------------------------------------ bounds
MaxNodes == 3      \* longest "nodes" list of a cluster document
MaxDescs == 2      \* distinct node descriptors a document draws from
MaxSlots == 3      \* cap on _id_supplier (slots handed out per pool)
MaxMarks == 3      \* decorators stacked on the test function
MaxExpands == 2    \* expand() calls made on one expander
MaxBuilds == 2     \* expanders constructed over the same function
MaxLines == 2      \* lines a remote command prints; items of a wrapped list
MaxLog == 4        \* bytes ever written to the monitored log
MaxUses == 2       \* operations run on the accounts of one pool
MaxHeldNodes == 2  \* nodes of the pool whose accounts are put to use
MaxAccounts == 2   \* accounts constructed on their own
MaxCalls == 2      \* alloc calls such callers make in all
MaxRaceNodes == 2  \* nodes of the pool the callers allocate from

VARIABLES
    accounts,          \* the RemoteAccount objects, by object identity 1..N
    available_nodes,   \* JsonCluster.available_nodes: deque of account refs
    in_use_nodes,      \* JsonCluster.in_use_nodes: set entries (ref + stored hash)
    id_supplier,       \* JsonCluster._id_supplier
    slots,             \* every ClusterSlot returned by alloc so far, in order
    freed,             \* indices into slots passed to free_single at least once
    released,          \* indices into slots whose free_single succeeded
    refreed,           \* TRUE once a released slot was passed to free_single again
    last,              \* the last pool call: arguments, outcome, state before
    fun,               \* the test function's attributes: marks, mark_names
    ctxs,              \* the TestContext objects created so far, by identity
    expander,          \* the MarkedFunctionExpander: seed_context, context_list
    lastx,             \* the last expand() call: arguments, outcome, state before
    lastm,             \* the last mark operation before the expander is built
    channel,           \* the remote command behind a stream: its lines, exit
    generator,         \* the iterator a stream wraps: lines read, loop or finished
    cached,            \* _IterWrapper.cached
    delivered,         \* the items next() returned so far, in order
    lasts,             \* the last call on the stream and its outcome
    hist,              \* what the consumer of the stream has seen so far
    log,               \* the bytes of the remote log file
    monitor,           \* the LogMonitor monitor_log yielded
    lastw,             \* the last evaluation of wait_until's condition
    sessions,          \* per account: objects its cache properties created
    uses,              \* operations run on accounts so far
    lastu,             \* the last operation on an account, account before
    lasta,             \* the last apply() called on a mark directly, state before
    callers,           \* the callers of alloc: where each stands in its call
    overlapped         \* TRUE once a caller has moved while another was in alloc

poolVars == <<accounts, available_nodes, in_use_nodes, id_supplier, slots,
              freed, released, refreed, last>>

markVars == <<fun, ctxs, expander, lastx, lastm, lasta>>

streamVars == <<channel, generator, cached, delivered, lasts, hist>>

logVars == <<log, monitor, lastw>>

sessVars == <<sessions, uses, lastu>>

raceVars == <<callers, overlapped>>

vars == <<poolVars, markVars, streamVars, logVars, sessVars, raceVars>>

\* ------------------------------------------------------ RemoteAccount
None == 0

\* RemoteAccount.__init__: the identity fields come from the node
\* descriptor, the three caches start out None.
RemoteAccount(desc) ==
    [desc |-> desc, logger |-> None, ssh_config |-> None, ssh_client |-> None,
     scp_client |-> None]

\* RemoteAccount.__eq__: the whole attribute dictionaries are compared.
AccountEq(a, b) == accounts[a] = accounts[b]

\* RemoteAccount.__hash__: hash of the sorted attribute items.
AccountHash(a) ==
    <<accounts[a].desc, accounts[a].logger, accounts[a].ssh_config,
      accounts[a].ssh_client, accounts[a].scp_client>>

\* ------------------------------------------------ set of accounts
\* The entries a lookup of account a in set S can hit: an entry whose stored
\* hash is a's present hash and whose key is a or equals a; when the probe
\* happens to land on it (collide), also the entry holding a itself under an
\* outdated hash.
SetMatches(S, a, collide) ==
    {e \in S : \/ /\ e.hash = AccountHash(a)
                  /\ (e.key = a \/ AccountEq(e.key, a))
               \/ /\ collide
                  /\ e.key = a}

SetContains(S, a, collide) == SetMatches(S, a, collide) # {}

SetAdd(S, a, collide) ==
    IF SetContains(S, a, collide) THEN S
    ELSE S \cup {[key |-> a, hash |-> AccountHash(a)]}

SetRemoveNone(S, a, collide) == S

SetRemove(S, a, collide) ==
    S \ {CHOOSE e \in SetMatches(S, a, collide) : TRUE}

\* ------------------------------------------------------ marks
\* A keyword mapping is the set of its <<name, value>> items; a mark's
\* injected_args is such a mapping or None.
Kw(items) == [none |-> FALSE, kw |-> items]

NoneArgs == [none |-> TRUE, kw |-> {}]

\* Ignore.__init__ / Ignore.name
Ignore(items) ==
    [kind |-> "Ignore", name |-> "IGNORE", injected_args |-> Kw(items),
     matrix |-> {}]

\* IgnoreAll.__init__: injected_args = None
IgnoreAll ==
    [kind |-> "IgnoreAll", name |-> "IGNORE", injected_args |-> NoneArgs,
     matrix |-> {}]

\* Matrix.__init__ / Matrix.name; the mapping is name -> list of values
Matrix(d) ==
    [kind |-> "Matrix", name |-> "MATRIX", injected_args |-> Kw({}),
     matrix |-> d]

\* Parametrize.__init__ / Parametrize.name
Parametrize(items) ==
    [kind |-> "Parametrize", name |-> "PARAMETRIZE",
     injected_args |-> Kw(items), matrix |-> {}]

\* the function before any decorator ran: no marks, no mark_names attribute
Unmarked == [has_marks |-> FALSE, marks |-> <<>>, mark_names |-> {}]

\* Mark.mark(fun, mark)
Mark_mark(f, m) ==
    [has_marks  |-> TRUE,
     marks      |-> IF f.has_marks THEN Append(f.marks, m) ELSE <<m>>,
     mark_names |-> IF f.has_marks THEN f.mark_names \cup {m.name} ELSE {m.name}]

\* Mark.marked(f, mark), by the mark's name
Mark_marked(f, name) == f.has_marks /\ name \in f.mark_names

\* Mark.clear_marks(f)
ClearMarksKeepNames(f) ==
    IF ~f.has_marks THEN f
    ELSE [has_marks |-> TRUE, marks |-> <<>>, mark_names |-> f.mark_names]

Mark_clear_marks(f) == IF ~f.has_marks THEN f ELSE Unmarked

\* _is_parametrize_mark(m)
is_parametrize_mark(m) == m.name = "PARAMETRIZE" \/ m.name = "MATRIX"

\* parametrized(f)
parametrized(f) == Mark_marked(f, "PARAMETRIZE") \/ Mark_marked(f, "MATRIX")

\* ignored(f)
ignored(f) == Mark_marked(f, "IGNORE")

RECURSIVE MarkAll(_, _)
MarkAll(f, ms) ==
    IF ms = <<>> THEN f ELSE MarkAll(Mark_mark(f, Head(ms)), Tail(ms))

\* _strip_parametrize_marks(fun)
strip_parametrize_marks(f) ==
    IF ~parametrized(f) THEN f
    ELSE MarkAll(Mark_clear_marks(f),
                 SelectSeq(f.marks, LAMBDA m : ~is_parametrize_mark(m)))

\* d.keys() of a dict with string keys: the hash order of the interpreter
\* the module is written for puts "y" before "x".
KeyOrder == <<"y", "x">>

DictKeys(d) ==
    LET present(k) == \E it \in d : it[1] = k
    IN  SelectSeq(KeyOrder, present)

DictGet(d, k) == (CHOOSE it \in d : it[1] = k)[2]

\* itertools.product over the value lists, each tuple turned into a dict
RECURSIVE ProductFrom(_, _)
RECURSIVE Prefixed(_, _, _)
Prefixed(k, vals, rest) ==
    IF vals = <<>> THEN <<>>
    ELSE [i \in 1..Len(rest) |-> {<<k, Head(vals)>>} \cup rest[i]]
         \o Prefixed(k, Tail(vals), rest)

ProductFrom(d, key_list) ==
    IF key_list = <<>> THEN << {} >>
    ELSE Prefixed(Head(key_list), DictGet(d, Head(key_list)),
                  ProductFrom(d, Tail(key_list)))

\* cartesian_product_dict(d)
cartesian_product_dict(d) == ProductFrom(d, DictKeys(d))

\* ------------------------------------------------------ expansion
\* TestContext(...): the seed descriptor carries no injected arguments and
\* is not ignored.
SeedContext == [injected_args |-> NoneArgs, ignore |-> FALSE]

\* TestContext.copy(function=..., injected_args=...)
CtxCopy(ctx, args) == [injected_args |-> args, ignore |-> ctx.ignore]

AList(items) == [is_list |-> TRUE, items |-> items]

\* a name bound to a single TestContext where the code expects a list
NotAList(c) == [is_list |-> FALSE, items |-> <<c>>]

\* list.insert(0, x)
ListInsertBack(items, c) == Append(items, c)

ListInsertFront(items, c) == <<c>> \o items

\* context_list.insert(0, seed_context.copy(...)) on the loop state st:
\* the copy is made first, the insert fails when context_list is no list.
InsertCopy(st, args) ==
    LET c == Len(st.ctxs) + 1
        heap == Append(st.ctxs, CtxCopy(st.ctxs[st.seed], args))
    IN  IF ~st.cl.is_list
        THEN [st EXCEPT !.ctxs = heap, !.err = "AttributeError"]
        ELSE [st EXCEPT !.ctxs = heap,
                        !.cl = AList(ListInsertFront(st.cl.items, c))]

\* Ignore.apply, line 94: the flag a descriptor gets
IgnoreFlagReset(m, ctx) ==
    m.injected_args.none \/ m.injected_args = ctx.injected_args

IgnoreFlag(m, ctx) ==
    ctx.ignore \/ m.injected_args.none \/ m.injected_args = ctx.injected_args

\* Ignore.apply, line 91: assert len(context_list) > 0
IgnoreAssertNone(items) == TRUE

IgnoreAssert(items) == Len(items) > 0

\* Ignore.apply
Ignore_apply(m, st) ==
    IF ~st.cl.is_list THEN [st EXCEPT !.err = "TypeError"]
    ELSE IF ~IgnoreAssert(st.cl.items) THEN [st EXCEPT !.err = "AssertionError"]
    ELSE LET hit == {st.cl.items[i] : i \in 1..Len(st.cl.items)}
         IN  [st EXCEPT !.ctxs =
                 [c \in 1..Len(st.ctxs) |->
                     IF c \in hit
                     THEN [st.ctxs[c] EXCEPT !.ignore = IgnoreFlag(m, st.ctxs[c])]
                     ELSE st.ctxs[c]]]

\* Matrix.apply: one insert per element of the product, in generation order
RECURSIVE MatrixInsert(_, _)
MatrixInsert(combos, st) ==
    IF combos = <<>> \/ st.err # "" THEN st
    ELSE MatrixInsert(Tail(combos), InsertCopy(st, Kw(Head(combos))))

Matrix_apply(m, st) == MatrixInsert(cartesian_product_dict(m.matrix), st)

\* Parametrize.apply
Parametrize_apply(m, st) == InsertCopy(st, m.injected_args)

\* m.apply(seed_context, context_list), by the kind of mark
Mark_apply(m, st) ==
    CASE m.kind = "Parametrize" -> Parametrize_apply(m, st)
      [] m.kind = "Matrix"      -> Matrix_apply(m, st)
      [] OTHER                  -> Ignore_apply(m, st)

\* expand, line 373: the value apply returned (the context list) is unpacked
\* into two targets, self.seed_context and self.context_list.
AssignApplyResult(st) ==
    IF st.err # "" THEN st
    ELSE IF ~st.cl.is_list THEN [st EXCEPT !.err = "TypeError"]
    ELSE IF Len(st.cl.items) # 2 THEN [st EXCEPT !.err = "ValueError"]
    ELSE [st EXCEPT !.seed = st.cl.items[1], !.cl = NotAList(st.cl.items[2])]

\* expand, lines 371-373: the loop over f.marks
RECURSIVE ApplyMarks(_, _)
ApplyMarks(ms, st) ==
    IF ms = <<>> \/ st.err # "" THEN st
    ELSE ApplyMarks(Tail(ms), AssignApplyResult(Mark_apply(Head(ms), st)))

\* expand, lines 359-369: the marks of f after an override by test_parameters
OverrideMarksLast(f, test_parameters) ==
    LET kept == IF f.has_marks
                THEN SelectSeq(f.marks, LAMBDA m : ~is_parametrize_mark(m))
                ELSE <<>>
        cleared == IF f.has_marks THEN Mark_clear_marks(f) ELSE f
    IN  Mark_mark(MarkAll(cleared, kept), Parametrize(test_parameters.kw))

OverrideMarks(f, test_parameters) ==
    LET kept == IF f.has_marks
                THEN SelectSeq(f.marks, LAMBDA m : ~is_parametrize_mark(m))
                ELSE <<>>
        cleared == IF f.has_marks THEN Mark_clear_marks(f) ELSE f
    IN  MarkAll(Mark_mark(cleared, Parametrize(test_parameters.kw)), kept)

\* MarkedFunctionExpander.__init__, lines 349-352
InitialContextList(f) == IF parametrized(f) THEN AList(<<>>) ELSE AList(<<1>>)

\* bindings and marks the decorators and the override draw from
P1 == {<<"x", 1>>, <<"y", 0>>}
P2 == {<<"x", 2>>, <<"y", 3>>}
P9 == {<<"x", 9>>}
MX == {<<"x", <<1, 2>>>>}
MXY == {<<"x", <<1, 2>>>>, <<"y", <<-1, -2>>>>}
MEmpty == {<<"x", <<>>>>}

Decorators ==
    {Parametrize(P1), Parametrize(P2), Ignore(P1), Ignore(P2), IgnoreAll,
     Matrix(MX), Matrix(MXY), Matrix(MEmpty)}

TestParameters == {NoneArgs, Kw(P2), Kw(P9)}

NoExpander == [built |-> FALSE, seed_context |-> 0, context_list |-> AList(<<>>),
               expands |-> 0, builds |-> 0]

NoCall == [op |-> "none", tp |-> NoneArgs, status |-> "none", error |-> "",
           value |-> AList(<<>>), first |-> FALSE, pre_fun |-> Unmarked]

NoApply ==
    [op |-> "none", marks |-> <<>>, error |-> "", count |-> 0,
     pre_ctxs |-> <<>>, pre_list |-> AList(<<>>)]

NoMarkOp == [op |-> "none", args |-> <<>>, pre_fun |-> Unmarked]

InitMarkIdle ==
    /\ fun = Unmarked
    /\ ctxs = <<>>
    /\ expander = NoExpander
    /\ lastx = NoCall
    /\ lastm = NoMarkOp
    /\ lasta = NoApply

\* a decorator (@parametrize, @matrix, @ignore) runs on the function
Decorate(m) ==
    /\ ~expander.built
    /\ Len(fun.marks) < MaxMarks
    /\ fun' = Mark_mark(fun, m)
    /\ lastm' = [op |-> "mark", args |-> <<m>>, pre_fun |-> fun]
    /\ UNCHANGED <<ctxs, expander, lastx, lasta>>

\* Mark.clear_marks(f) called on the function
ClearMarks ==
    /\ ~expander.built
    /\ fun' = Mark_clear_marks(fun)
    /\ lastm' = [op |-> "clear_marks", args |-> <<>>, pre_fun |-> fun]
    /\ UNCHANGED <<ctxs, expander, lastx, lasta>>

\* _strip_parametrize_marks(f) called on the function
StripParametrize ==
    /\ ~expander.built
    /\ fun' = strip_parametrize_marks(fun)
    /\ lastm' = [op |-> "strip", args |-> <<>>, pre_fun |-> fun]
    /\ UNCHANGED <<ctxs, expander, lastx, lasta>>

\* MarkedFunctionExpander(function=f)
NewExpander ==
    /\ expander.builds < MaxBuilds
    /\ ctxs' = <<SeedContext>>
    /\ expander' = [built |-> TRUE, seed_context |-> 1,
                    context_list |-> InitialContextList(fun),
                    expands |-> 0, builds |-> expander.builds + 1]
    /\ lastx' = [NoCall EXCEPT !.op = "new", !.pre_fun = fun]
    /\ lastm' = NoMarkOp
    /\ lasta' = NoApply
    /\ UNCHANGED fun

\* MarkedFunctionExpander.expand(test_parameters)
expand(test_parameters) ==
    /\ expander.built
    /\ expander.expands < MaxExpands
    /\ LET f == IF ~test_parameters.none
                THEN OverrideMarks(fun, test_parameters)
                ELSE fun
           st0 == [ctxs |-> ctxs, seed |-> expander.seed_context,
                   cl |-> expander.context_list, err |-> ""]
           st == IF f.has_marks THEN ApplyMarks(f.marks, st0) ELSE st0
       IN  /\ fun' = f
           /\ ctxs' = st.ctxs
           /\ expander' = [expander EXCEPT !.seed_context = st.seed,
                                           !.context_list = st.cl,
                                           !.expands = @ + 1]
           /\ lastx' = [op |-> "expand", tp |-> test_parameters,
                        status |-> IF st.err = "" THEN "returned" ELSE "raised",
                        error |-> st.err,
                        value |-> IF st.err = "" THEN st.cl ELSE AList(<<>>),
                        first |-> expander.expands = 0,
                        pre_fun |-> fun]
    /\ UNCHANGED <<lastm, lasta>>

DecorateAny == \E m \in Decorators : Decorate(m)

\* one turn of the loop of expand, lines 371-373, up to the assignment:
\* the next mark of f is applied to the seed and to the list, the list that
\* apply returns being the one the next mark is given
ApplyNext ==
    /\ expander.built
    /\ lasta.error = ""
    /\ lasta.count < Len(fun.marks)
    /\ LET m == fun.marks[lasta.count + 1]
           st == Mark_apply(m, [ctxs |-> ctxs, seed |-> expander.seed_context,
                                cl |-> expander.context_list, err |-> ""])
       IN  /\ ctxs' = st.ctxs
           /\ expander' = [expander EXCEPT !.context_list = st.cl]
           /\ lasta' = [op |-> "apply", marks |-> <<m>>, error |-> st.err,
                        count |-> lasta.count + 1,
                        pre_ctxs |-> ctxs, pre_list |-> expander.context_list]
    /\ UNCHANGED <<fun, lastx, lastm>>

Expand == \E tp \in TestParameters : expand(tp)

\* ------------------------------------------------------ JsonCluster
\* JsonCluster.__len__
ClusterLen(avail, inuse) == Len(avail) + Cardinality(inuse)

\* JsonCluster.num_available_nodes
num_available_nodes(avail) == Len(avail)

\* alloc, line 91: the exhaustion test
AllocExhaustedNever(num_nodes, avail) == FALSE

AllocExhaustedStrict(num_nodes, avail) == num_nodes >= num_available_nodes(avail)

AllocExhausted(num_nodes, avail) == num_nodes > num_available_nodes(avail)

\* deque.popleft: the node taken and the rest
PopleftNode(avail) == Head(avail)

PopleftRestKeep(avail) == avail

PopleftRest(avail) == Tail(avail)

\* alloc, line 104: self._id_supplier += 1
NextIdStuck(id) == id

NextId(id) == id + 1

\* alloc, lines 98-105: the loop, on a record of the loop's variables
RECURSIVE AllocLoop(_, _, _)
AllocLoop(i, st, collide) ==
    IF i = 0 THEN st
    ELSE LET node == PopleftNode(st.avail)
             cluster_slot == [account |-> node, slot_id |-> st.id]
         IN  AllocLoop(i - 1,
                       [avail  |-> PopleftRest(st.avail),
                        inuse  |-> SetAdd(st.inuse, node, collide),
                        id     |-> NextId(st.id),
                        result |-> Append(st.result, cluster_slot)],
                       collide)

\* free_single, line 110: the freed account goes to the back of the deque
FreeAppendFront(avail, a) == <<a>> \o avail

FreeAppend(avail, a) == Append(avail, a)

\* free_single, line 108: the assertion
FreeAssert(inuse, a, collide) == SetContains(inuse, a, collide)

PreState == [available_nodes |-> available_nodes,
             in_use_nodes    |-> in_use_nodes,
             id_supplier     |-> id_supplier,
             freed           |-> freed]

Call(op, n, slot, ok, result) ==
    [op |-> op, n |-> n, slot |-> slot, ok |-> ok, result |-> result,
     pre |-> PreState]

\* JsonCluster.__init__, lines 70-82
InitPoolOf(maxNodes) ==
    /\ \E k \in 0..maxNodes :
         \E ds \in [1..k -> 1..MaxDescs] :
            accounts = [i \in 1..k |-> RemoteAccount(ds[i])]
    /\ available_nodes = [i \in 1..Len(accounts) |-> i]
    /\ in_use_nodes = {}
    /\ id_supplier = 0
    /\ slots = <<>>
    /\ freed = {}
    /\ released = {}
    /\ refreed = FALSE
    /\ last = [op |-> "init", n |-> 0, slot |-> 0, ok |-> TRUE, result |-> <<>>,
               pre |-> [available_nodes |-> <<>>, in_use_nodes |-> {},
                        id_supplier |-> 0, freed |-> {}]]

\* JsonCluster.alloc(num_nodes)
alloc(num_nodes) ==
    IF AllocExhausted(num_nodes, available_nodes)
    THEN /\ last' = Call("alloc", num_nodes, 0, FALSE, <<>>)
         /\ UNCHANGED <<accounts, available_nodes, in_use_nodes, id_supplier,
                        slots, freed, released, refreed>>
    ELSE /\ id_supplier + num_nodes <= MaxSlots
         /\ \E collide \in BOOLEAN :
              LET st == AllocLoop(num_nodes,
                                  [avail |-> available_nodes, inuse |-> in_use_nodes,
                                   id |-> id_supplier, result |-> <<>>],
                                  collide)
              IN  /\ available_nodes' = st.avail
                  /\ in_use_nodes' = st.inuse
                  /\ id_supplier' = st.id
                  /\ slots' = slots \o st.result
                  /\ last' = Call("alloc", num_nodes, 0, TRUE, st.result)
         /\ UNCHANGED <<accounts, freed, released, refreed>>

\* JsonCluster.free_single(slot), slot being the s-th slot alloc returned
free_single(s) ==
    LET a == slots[s].account
    IN  /\ freed' = freed \cup {s}
        /\ refreed' = (refreed \/ s \in released)
        /\ \E collide \in BOOLEAN :
             IF FreeAssert(in_use_nodes, a, collide)
             THEN /\ in_use_nodes' = SetRemove(in_use_nodes, a, collide)
                  /\ available_nodes' = FreeAppend(available_nodes, a)
                  /\ released' = released \cup {s}
                  /\ last' = Call("free_single", 0, s, TRUE, <<>>)
             ELSE /\ last' = Call("free_single", 0, s, FALSE, <<>>)
                  /\ UNCHANGED <<available_nodes, in_use_nodes, released>>
        /\ UNCHANGED <<accounts, id_supplier, slots>>

Alloc ==
    /\ \E num_nodes \in 0..(MaxNodes + 1) : alloc(num_nodes)
    /\ UNCHANGED <<markVars, streamVars, logVars, sessVars, raceVars>>

FreeSingle ==
    /\ \E s \in 1..Len(slots) : free_single(s)
    /\ UNCHANGED <<markVars, streamVars, logVars, sessVars, raceVars>>

\* ------------------------------------------------------ alloc, step by step
\* a caller that is not in alloc: pc is where the caller stands, left the
\* turns of the loop still to finish (num_nodes at first), node and
\* result the locals of alloc, tmp the counter value loaded by line 104,
\* error the exception that ended its last call, calls the calls it has made
\* the callers of alloc that run without serialization
Callers == {1, 2}

IdleCaller == [pc |-> "idle", left |-> 0, node |-> 0, result |-> <<>>,
               tmp |-> 0, error |-> "", calls |-> 0]

InitRaceIdle ==
    /\ callers = [c \in Callers |-> IdleCaller]
    /\ overlapped = FALSE

\* another caller is inside alloc
OthersInAlloc(c) == \E d \in Callers : d # c /\ callers[d].pc # "idle"

\* a step of caller c: the pool has no lock, so the step is taken whatever
\* the other callers are doing
Moves(c, now) ==
    /\ callers' = [callers EXCEPT ![c] = now]
    /\ overlapped' = (overlapped \/ OthersInAlloc(c))

\* alloc, lines 91-98: the call starts with the availability check
AllocCheck(c, num_nodes) ==
    /\ callers[c].pc = "idle"
    /\ callers[1].calls + callers[2].calls < MaxCalls
    /\ LET me == [IdleCaller EXCEPT !.calls = callers[c].calls + 1]
       IN  IF AllocExhausted(num_nodes, available_nodes)
           THEN Moves(c, [me EXCEPT !.error = "RuntimeError"])
           ELSE Moves(c, [me EXCEPT !.pc = "popleft", !.left = num_nodes])
    /\ UNCHANGED poolVars

\* alloc, line 100: node = self.available_nodes.popleft(); on an empty deque
\* popleft raises IndexError and the call ends
AllocPopleft(c) ==
    /\ callers[c].pc = "popleft"
    /\ IF available_nodes = <<>>
       THEN /\ Moves(c, [IdleCaller EXCEPT !.calls = callers[c].calls,
                                           !.error = "IndexError"])
            /\ UNCHANGED available_nodes
       ELSE /\ Moves(c, [callers[c] EXCEPT !.pc = "slot",
                                           !.node = PopleftNode(available_nodes)])
            /\ available_nodes' = PopleftRest(available_nodes)
    /\ UNCHANGED <<accounts, in_use_nodes, id_supplier, slots, freed, released,
                   refreed, last>>

\* alloc, lines 101-102: the slot is built with the counter's current value
AllocSlot(c) ==
    /\ callers[c].pc = "slot"
    /\ Moves(c, [callers[c] EXCEPT
                   !.pc = "add",
                   !.result = Append(@, [account |-> callers[c].node,
                                         slot_id |-> id_supplier])])
    /\ UNCHANGED poolVars

\* alloc, line 103: self.in_use_nodes.add(node)
AllocAdd(c) ==
    /\ callers[c].pc = "add"
    /\ \E collide \in BOOLEAN :
          in_use_nodes' = SetAdd(in_use_nodes, callers[c].node, collide)
    /\ Moves(c, [callers[c] EXCEPT !.pc = "load"])
    /\ UNCHANGED <<accounts, available_nodes, id_supplier, slots, freed,
                   released, refreed, last>>

\* alloc, line 104: self._id_supplier += 1 reads the counter ...
AllocLoad(c) ==
    /\ callers[c].pc = "load"
    /\ Moves(c, [callers[c] EXCEPT !.pc = "store", !.tmp = id_supplier])
    /\ UNCHANGED poolVars

\* ... and writes it back, which ends the turn of the loop; after the last
\* turn the call returns its result (line 105)
AllocStore(c) ==
    /\ callers[c].pc = "store"
    /\ id_supplier' = NextId(callers[c].tmp)
    /\ IF callers[c].left = 1
       THEN /\ slots' = slots \o callers[c].result
            /\ Moves(c, [IdleCaller EXCEPT !.calls = callers[c].calls])
       ELSE /\ Moves(c, [callers[c] EXCEPT !.pc = "popleft", !.left = @ - 1])
            /\ UNCHANGED slots
    /\ UNCHANGED <<accounts, available_nodes, in_use_nodes, freed, released,
                   refreed, last>>

\* free_single(slot), on a slot not freed yet, called by a caller while no
\* alloc call is under way
FreeHeld(c) ==
    /\ \A d \in Callers : callers[d].pc = "idle"
    /\ \E s \in (1..Len(slots)) \ freed : free_single(s)
    /\ Moves(c, callers[c])

RaceCheck ==
    /\ \E c \in Callers : \E num_nodes \in 1..MaxRaceNodes :
          AllocCheck(c, num_nodes)
    /\ UNCHANGED <<markVars, streamVars, logVars, sessVars>>

RacePopleft ==
    /\ \E c \in Callers : AllocPopleft(c)
    /\ UNCHANGED <<markVars, streamVars, logVars, sessVars>>

RaceSlot ==
    /\ \E c \in Callers : AllocSlot(c)
    /\ UNCHANGED <<markVars, streamVars, logVars, sessVars>>

RaceAdd ==
    /\ \E c \in Callers : AllocAdd(c)
    /\ UNCHANGED <<markVars, streamVars, logVars, sessVars>>

RaceLoad ==
    /\ \E c \in Callers : AllocLoad(c)
    /\ UNCHANGED <<markVars, streamVars, logVars, sessVars>>

RaceStore ==
    /\ \E c \in Callers : AllocStore(c)
    /\ UNCHANGED <<markVars, streamVars, logVars, sessVars>>

RaceFree ==
    /\ \E c \in Callers : FreeHeld(c)
    /\ UNCHANGED <<markVars, streamVars, logVars, sessVars>>

\* ------------------------------------------------------ _IterWrapper
\* _IterWrapper.__init__, line 285: the sentinel, an object no item is
Sentinel == 0

\* the values a line or a list item may have
LineValues == 1..MaxLines

LineSeqs == UNION {[1..n -> LineValues] : n \in 0..MaxLines}

\* _IterWrapper(iter(items)): a wrapper over a plain list iterator, without
\* a channel file; the "channel" then only holds the list
IterOverList(items) ==
    [has_channel |-> FALSE, lines |-> items, arrived |-> Len(items),
     eof |-> TRUE, exit_status |-> 0, allow_fail |-> TRUE]

\* ssh_capture(cmd, allow_fail), lines 175-176 and 193: the command is
\* started; lines is what it is going to print, none has arrived yet
ssh_capture(cmd_lines, cmd_exit_status, allow_fail) ==
    [has_channel |-> TRUE, lines |-> cmd_lines, arrived |-> 0,
     eof |-> FALSE, exit_status |-> cmd_exit_status, allow_fail |-> allow_fail]

NewGenerator == [pos |-> 0, finished |-> FALSE, closed |-> FALSE]

\* stdout.readline() at line 180, under the timeout the channel has: a line
\* that has arrived, '' at end of file, a socket.timeout when a timeout is
\* set and nothing has arrived, otherwise the call blocks
ReadLine(ch, g, timed) ==
    IF g.pos < ch.arrived THEN "line"
    ELSE IF ch.eof THEN "eof"
    ELSE IF timed THEN "timeout"
    ELSE "blocks"

\* next() of a list iterator
ListIterNext(ch, g) ==
    IF g.pos < Len(ch.lines)
    THEN [gen |-> [g EXCEPT !.pos = @ + 1], out |-> "item",
          item |-> ch.lines[g.pos + 1]]
    ELSE [gen |-> g, out |-> "StopIteration", item |-> Sentinel]

\* ssh_capture, line 186: the exit check made once the output is exhausted
ExitCheckFails(ch) == ~ch.allow_fail /\ ch.exit_status # 0

\* ssh_capture, lines 178-191: output_generator resumed by next(); callback
\* is None.  An exception leaving the generator finishes it: every later
\* next() on it raises StopIteration.
output_generator(ch, g, timed) ==
    IF g.finished
    THEN [gen |-> g, out |-> "StopIteration", item |-> Sentinel]
    ELSE LET r == ReadLine(ch, g, timed)
         IN  IF r = "line"
             THEN [gen |-> [g EXCEPT !.pos = @ + 1], out |-> "item",
                   item |-> ch.lines[g.pos + 1]]
             ELSE IF r = "eof"
             THEN [gen |-> [g EXCEPT !.finished = TRUE, !.closed = TRUE],
                   out |-> IF ExitCheckFails(ch) THEN "RuntimeError"
                           ELSE "StopIteration",
                   item |-> Sentinel]
             ELSE [gen |-> [g EXCEPT !.finished = TRUE],
                   out |-> "socket.timeout", item |-> Sentinel]

\* next(self.iter_obj)
IterObjNext(ch, g, timed) ==
    IF ch.has_channel THEN output_generator(ch, g, timed) ELSE ListIterNext(ch, g)

\* lines 292 and 306: self.cached is self.sentinel
CachedIsSentinelAlways(c) == TRUE

CachedIsSentinel(c) == c = Sentinel

\* the call would wait for the command to print a line or to exit
StreamBlocks(timed) ==
    /\ channel.has_channel
    /\ CachedIsSentinel(cached)
    /\ ~generator.finished
    /\ ReadLine(channel, generator, timed) = "blocks"

StreamCall(op, timed, out, value, timed_out) ==
    [op |-> op, timed |-> timed, out |-> out, value |-> value,
     timed_out |-> timed_out, pre_delivered |-> Len(delivered)]

\* what the consumer has seen: whether a look-ahead timed out, the first
\* end or error a call raised, whether an item was returned after it
Seen(out, timed_out) ==
    [timed_out |-> hist.timed_out \/ timed_out,
     end       |-> IF hist.end = "none" /\ out \in {"StopIteration", "RuntimeError"}
                   THEN out ELSE hist.end,
     late      |-> hist.late \/ (hist.end # "none" /\ out = "item")]

NoStreamCall ==
    [op |-> "none", timed |-> FALSE, out |-> "none", value |-> Sentinel,
     timed_out |-> FALSE, pre_delivered |-> 0]

NothingSeen == [timed_out |-> FALSE, end |-> "none", late |-> FALSE]

InitStreamOf(ch) ==
    /\ channel = ch
    /\ generator = NewGenerator
    /\ cached = Sentinel
    /\ delivered = <<>>
    /\ lasts = NoStreamCall
    /\ hist = NothingSeen

InitStreamIdle == InitStreamOf(IterOverList(<<>>))

\* _IterWrapper.next, lines 291-296
IterWrapper_next ==
    /\ ~StreamBlocks(FALSE)
    /\ IF CachedIsSentinel(cached)
       THEN LET r == IterObjNext(channel, generator, FALSE)
            IN  /\ generator' = r.gen
                /\ delivered' = IF r.out = "item" THEN Append(delivered, r.item)
                                ELSE delivered
                /\ lasts' = StreamCall("next", FALSE, r.out, r.item, FALSE)
                /\ hist' = Seen(r.out, FALSE)
                /\ UNCHANGED cached
       ELSE /\ delivered' = Append(delivered, cached)
            /\ cached' = Sentinel
            /\ lasts' = StreamCall("next", FALSE, "item", cached, FALSE)
            /\ hist' = Seen("item", FALSE)
            /\ UNCHANGED generator
    /\ UNCHANGED channel

\* _IterWrapper.has_next(timeout_sec), lines 298-322; timed: timeout_sec is
\* not None
IterWrapper_has_next(timed) ==
    /\ IF timed /\ ~channel.has_channel
       THEN /\ lasts' = StreamCall("has_next", timed, "AssertionError", Sentinel, FALSE)
            /\ UNCHANGED <<generator, cached, hist>>
       ELSE /\ ~StreamBlocks(timed)
            /\ IF CachedIsSentinel(cached)
               THEN LET r == IterObjNext(channel, generator, timed)
                    IN  /\ generator' = r.gen
                        /\ cached' = IF r.out = "item" THEN r.item
                                     ELSE IF r.out = "RuntimeError" THEN cached
                                     ELSE Sentinel
                        /\ lasts' = StreamCall("has_next", timed,
                                       IF r.out = "item" THEN "True"
                                       ELSE IF r.out = "RuntimeError" THEN "RuntimeError"
                                       ELSE "False",
                                       Sentinel, r.out = "socket.timeout")
                        /\ hist' = Seen(IF r.out = "RuntimeError" THEN "RuntimeError"
                                        ELSE "none",
                                        r.out = "socket.timeout")
               ELSE /\ lasts' = StreamCall("has_next", timed, "True", Sentinel, FALSE)
                    /\ UNCHANGED <<generator, cached, hist>>
    /\ UNCHANGED <<channel, delivered>>

\* the remote command prints its next line
CommandPrints ==
    /\ channel.has_channel
    /\ ~channel.eof
    /\ channel.arrived < Len(channel.lines)
    /\ channel' = [channel EXCEPT !.arrived = @ + 1]
    /\ UNCHANGED <<generator, cached, delivered, lasts, hist>>

\* the remote command exits, having printed all its lines
CommandExits ==
    /\ channel.has_channel
    /\ ~channel.eof
    /\ channel.arrived = Len(channel.lines)
    /\ channel' = [channel EXCEPT !.eof = TRUE]
    /\ UNCHANGED <<generator, cached, delivered, lasts, hist>>

\* ------------------------------------------------------ LogMonitor
\* the bytes a log is written from, and the byte string grep looks for
LogBytes == 1..2

Pattern == <<1, 2>>

\* grep '<pattern>': exit status 0 when the input holds the pattern, else 1
Matches(input) ==
    \E i \in 1..(Len(input) - 1) :
        input[i] = Pattern[1] /\ input[i + 1] = Pattern[2]

GrepExit(input) == IF Matches(input) THEN 0 ELSE 1

\* tail -c +k: the content from its k-th byte on (k = 0 reads as k = 1)
TailC(content, k) == SubSeq(content, IF k < 1 THEN 1 ELSE k, Len(content))

\* wait_until, line 347: the byte tail starts from
TailStartAtOffset(offset) == offset

TailStart(offset) == offset + 1

\* monitor_log, lines 264-267: the size wc -c reports, 0 when the probe
\* raised
ProbeOffset(content, probe_ok) == IF probe_ok THEN Len(content) ELSE 0

\* LogMonitor.__init__; created_len and probe_ok record the log's length at
\* creation and whether the probe went through
NoMonitor == [made |-> FALSE, offset |-> 0, created_len |-> 0, probe_ok |-> TRUE]

NoPoll == [op |-> "none", status |-> "none", result |-> FALSE, offset |-> 0]

InitLogOf(content) ==
    /\ log = content
    /\ monitor = NoMonitor
    /\ lastw = NoPoll

InitLogIdle == InitLogOf(<<>>)

\* a process on the remote host appends a byte to the log
LogWrite(b) ==
    /\ Len(log) < MaxLog
    /\ log' = Append(log, b)
    /\ UNCHANGED <<monitor, lastw>>

\* RemoteAccount.monitor_log(log), lines 264-268
monitor_log(probe_ok) ==
    /\ ~monitor.made
    /\ monitor' = [made |-> TRUE, offset |-> ProbeOffset(log, probe_ok),
                   created_len |-> Len(log), probe_ok |-> probe_ok]
    /\ UNCHANGED <<log, lastw>>

\* LogMonitor.wait_until, line 347: one evaluation of the condition
\* wait_until polls; ssh(..., allow_fail=True) returns grep's exit status
\* or raises when the command cannot be run
wait_until_condition(ssh_ok) ==
    /\ monitor.made
    /\ lastw' = IF ssh_ok
                THEN [op |-> "poll", status |-> "returned",
                      result |-> GrepExit(TailC(log, TailStart(monitor.offset))) = 0,
                      offset |-> monitor.offset]
                ELSE [op |-> "poll", status |-> "raised", result |-> FALSE,
                      offset |-> monitor.offset]
    /\ UNCHANGED <<log, monitor>>

LogWriteAny == \E b \in LogBytes : LogWrite(b)

MonitorLog == \E probe_ok \in BOOLEAN : monitor_log(probe_ok)

WaitUntilPoll == \E ssh_ok \in BOOLEAN : wait_until_condition(ssh_ok)

\* ------------------------------------------------- RemoteAccount caches
\* per account: how many config, client and transfer objects its properties
\* created, and the SSH client the transfer client was built on
NoSession == [configs |-> 0, clients |-> 0, scps |-> 0, transport |-> None]

NoUse == [op |-> "none", acct |-> 0, error |-> "", pre |-> RemoteAccount(0)]

InitSessIdle ==
    /\ sessions = [a \in 1..Len(accounts) |-> NoSession]
    /\ uses = 0
    /\ lastu = NoUse

\* the identity of the k-th object created for account a
ObjId(a, k) == a + Len(accounts) * (k - 1)

\* lines 41, 47, 66: "if not self._x"
CacheEmptyAlways(v) == TRUE

CacheEmpty(v) == v = None

\* RemoteAccount.ssh_config, lines 39-43, on st = [acct, sess, err]
ssh_config_get(a, st, parse_ok) ==
    IF CacheEmpty(st.acct.ssh_config)
    THEN IF parse_ok
         THEN [st EXCEPT !.sess.configs = @ + 1,
                         !.acct.ssh_config = ObjId(a, st.sess.configs + 1)]
         ELSE [st EXCEPT !.err = "parse"]
    ELSE st

\* RemoteAccount.ssh_client, lines 45-62
ssh_client_get(a, st, parse_ok, connect_ok) ==
    IF CacheEmpty(st.acct.ssh_client)
    THEN LET s1 == ssh_config_get(a, st, parse_ok)
         IN  IF s1.err # "" THEN s1
             ELSE IF connect_ok
             THEN [s1 EXCEPT !.sess.clients = @ + 1,
                             !.acct.ssh_client = ObjId(a, s1.sess.clients + 1)]
             ELSE [s1 EXCEPT !.err = "connect"]
    ELSE st

\* RemoteAccount.scp_client, lines 64-68
scp_client_get(a, st, parse_ok, connect_ok) ==
    IF CacheEmpty(st.acct.scp_client)
    THEN LET s1 == ssh_client_get(a, st, parse_ok, connect_ok)
         IN  IF s1.err # "" THEN s1
             ELSE [s1 EXCEPT !.sess.scps = @ + 1,
                             !.acct.scp_client = ObjId(a, s1.sess.scps + 1),
                             !.sess.transport = s1.acct.ssh_client]
    ELSE st

\* the account is held through a slot not yet passed to free_single
Held(a) == \E s \in 1..Len(slots) : s \notin freed /\ slots[s].account = a

UseOutcome(op, a, st) ==
    /\ accounts' = [accounts EXCEPT ![a] = st.acct]
    /\ sessions' = [sessions EXCEPT ![a] = st.sess]
    /\ uses' = uses + 1
    /\ lastu' = [op |-> op, acct |-> a, error |-> st.err, pre |-> accounts[a]]

\* ssh, ssh_output, ssh_capture (lines 157, 175, 197): client = self.ssh_client
ssh(a, parse_ok, connect_ok) ==
    /\ uses < MaxUses
    /\ UseOutcome("ssh", a,
                  ssh_client_get(a, [acct |-> accounts[a], sess |-> sessions[a],
                                     err |-> ""], parse_ok, connect_ok))

\* scp_from, scp_to (lines 237, 241): scp = self.scp_client
scp(a, parse_ok, connect_ok) ==
    /\ uses < MaxUses
    /\ UseOutcome("scp", a,
                  scp_client_get(a, [acct |-> accounts[a], sess |-> sessions[a],
                                     err |-> ""], parse_ok, connect_ok))

Ssh ==
    /\ \E a \in 1..Len(accounts) : \E parse_ok \in BOOLEAN : \E connect_ok \in BOOLEAN :
          ssh(a, parse_ok, connect_ok)
    /\ UNCHANGED <<available_nodes, in_use_nodes, id_supplier, slots, freed,
                   released, refreed, last>>
    /\ UNCHANGED <<markVars, streamVars, logVars, raceVars>>

Scp ==
    /\ \E a \in 1..Len(accounts) : \E parse_ok \in BOOLEAN : \E connect_ok \in BOOLEAN :
          scp(a, parse_ok, connect_ok)
    /\ UNCHANGED <<available_nodes, in_use_nodes, id_supplier, slots, freed,
                   released, refreed, last>>
    /\ UNCHANGED <<markVars, streamVars, logVars, raceVars>>

\* the same calls made on the account of a slot that is held
SshHeld ==
    /\ \E a \in 1..Len(accounts) : \E parse_ok \in BOOLEAN : \E connect_ok \in BOOLEAN :
          Held(a) /\ ssh(a, parse_ok, connect_ok)
    /\ UNCHANGED <<available_nodes, in_use_nodes, id_supplier, slots, freed,
                   released, refreed, last>>
    /\ UNCHANGED <<markVars, streamVars, logVars, raceVars>>

ScpHeld ==
    /\ \E a \in 1..Len(accounts) : \E parse_ok \in BOOLEAN : \E connect_ok \in BOOLEAN :
          Held(a) /\ scp(a, parse_ok, connect_ok)
    /\ UNCHANGED <<available_nodes, in_use_nodes, id_supplier, slots, freed,
                   released, refreed, last>>
    /\ UNCHANGED <<markVars, streamVars, logVars, raceVars>>

\* the pool: a cluster document is loaded, then alloc and free_single calls
Idle(subsystem) ==
    /\ subsystem = "pool" \/ InitPoolOf(0)
    /\ InitSessIdle
    /\ subsystem = "mark" \/ InitMarkIdle
    /\ subsystem = "stream" \/ InitStreamIdle
    /\ subsystem = "log" \/ InitLogIdle
    /\ subsystem = "race" \/ InitRaceIdle

InitPool == InitPoolOf(MaxNodes) /\ Idle("pool")

NextPool == Alloc \/ FreeSingle

SpecPool == InitPool /\ [][NextPool]_vars

\* the pool used by callers whose alloc calls are not serialized
InitRace ==
    /\ InitPoolOf(MaxRaceNodes)
    /\ accounts = [i \in 1..MaxRaceNodes |-> RemoteAccount(1 + ((i - 1) % MaxDescs))]
    /\ Idle("pool")

NextRace ==
    \/ RaceCheck
    \/ RacePopleft
    \/ RaceSlot
    \/ RaceAdd
    \/ RaceLoad
    \/ RaceStore
    \/ RaceFree

SpecRace == InitRace /\ [][NextRace]_vars

\* the marks: decorators run, an expander is built, expand is called
InitMark == InitMarkIdle /\ Idle("mark")

NextMark ==
    \/ DecorateAny /\ UNCHANGED <<poolVars, streamVars, logVars, sessVars, raceVars>>
    \/ ClearMarks /\ UNCHANGED <<poolVars, streamVars, logVars, sessVars, raceVars>>
    \/ StripParametrize /\ UNCHANGED <<poolVars, streamVars, logVars, sessVars, raceVars>>
    \/ NewExpander /\ UNCHANGED <<poolVars, streamVars, logVars, sessVars, raceVars>>
    \/ Expand /\ UNCHANGED <<poolVars, streamVars, logVars, sessVars, raceVars>>

SpecMark == InitMark /\ [][NextMark]_vars

\* the marks of a decorated function applied one after another to the seed
\* and the list its expander was constructed with
InitApply == InitMarkIdle /\ Idle("mark")

NextApply ==
    \/ DecorateAny /\ UNCHANGED <<poolVars, streamVars, logVars, sessVars, raceVars>>
    \/ NewExpander /\ UNCHANGED <<poolVars, streamVars, logVars, sessVars, raceVars>>
    \/ ApplyNext /\ UNCHANGED <<poolVars, streamVars, logVars, sessVars, raceVars>>

SpecApply == InitApply /\ [][NextApply]_vars

\* a stream: a wrapper over a list, or over the output of a command started
\* by ssh_capture; the command prints and exits while the stream is read
InitStream ==
    /\ \E ls \in LineSeqs :
         \/ InitStreamOf(IterOverList(ls))
         \/ \E st \in 0..1 : \E af \in BOOLEAN : InitStreamOf(ssh_capture(ls, st, af))
    /\ Idle("stream")

NextItem == IterWrapper_next

HasNext == \E timed \in BOOLEAN : IterWrapper_has_next(timed)

NextStream ==
    \/ CommandPrints /\ UNCHANGED <<poolVars, markVars, logVars, sessVars, raceVars>>
    \/ CommandExits /\ UNCHANGED <<poolVars, markVars, logVars, sessVars, raceVars>>
    \/ NextItem /\ UNCHANGED <<poolVars, markVars, logVars, sessVars, raceVars>>
    \/ HasNext /\ UNCHANGED <<poolVars, markVars, logVars, sessVars, raceVars>>

SpecStream == InitStream /\ [][NextStream]_vars

\* a log being written while a monitor is created and polled
InitLog ==
    /\ \E n \in 0..MaxLog : \E content \in [1..n -> LogBytes] : InitLogOf(content)
    /\ Idle("log")

NextLog ==
    \/ LogWriteAny /\ UNCHANGED <<poolVars, markVars, streamVars, sessVars, raceVars>>
    \/ MonitorLog /\ UNCHANGED <<poolVars, markVars, streamVars, sessVars, raceVars>>
    \/ WaitUntilPoll /\ UNCHANGED <<poolVars, markVars, streamVars, sessVars, raceVars>>

SpecLog == InitLog /\ [][NextLog]_vars

\* the pool with the accounts of its outstanding slots put to use
InitHeld == InitPoolOf(MaxHeldNodes) /\ Idle("pool")

NextHeld == Alloc \/ FreeSingle \/ SshHeld \/ ScpHeld

SpecHeld == InitHeld /\ [][NextHeld]_vars

\* accounts constructed on their own, RemoteAccount(hostname, ...), and used
InitSession ==
    /\ \E k \in 1..MaxAccounts :
         \E ds \in [1..k -> 1..MaxDescs] :
            accounts = [i \in 1..k |-> RemoteAccount(ds[i])]
    /\ available_nodes = <<>>
    /\ in_use_nodes = {}
    /\ id_supplier = 0
    /\ slots = <<>>
    /\ freed = {}
    /\ released = {}
    /\ refreed = FALSE
    /\ last = [op |-> "init", n |-> 0, slot |-> 0, ok |-> TRUE, result |-> <<>>,
               pre |-> [available_nodes |-> <<>>, in_use_nodes |-> {},
                        id_supplier |-> 0, freed |-> {}]]
    /\ Idle("pool")

NextSession == Ssh \/ Scp

SpecSession == InitSession /\ [][NextSession]_vars

\* ------------------------------------------------------ pool claims
N == Len(accounts)

\* slots returned by alloc and not yet passed to free_single
Outstanding == (1..Len(slots)) \ freed

Exclusive ==
    \A i \in Outstanding : \A j \in Outstanding :
        i # j => slots[i].account # slots[j].account

PoolUnchanged ==
    /\ available_nodes = last.pre.available_nodes
    /\ in_use_nodes = last.pre.in_use_nodes
    /\ id_supplier = last.pre.id_supplier

\* C1: for a pool built from N node descriptors, the pool's size
\* (available + in use) is N in every state, and the number of available
\* nodes plus the number of allocated nodes is N.
C1_PoolSize ==
    /\ ClusterLen(available_nodes, in_use_nodes) = N
    /\ num_available_nodes(available_nodes) + Cardinality(in_use_nodes) = N

\* C2 as stated: whatever slots returned by alloc are passed to free_single,
\* no two slots that were returned by alloc and not yet passed to free_single
\* hold the same node.
C2_ExclusiveAnyFree == Exclusive

\* C2 amended: as long as no slot is passed to free_single again after a
\* free_single of it succeeded, no two slots that were returned by alloc and
\* not yet passed to free_single hold the same node.
C2_ExclusiveFreeOnce == ~refreed => Exclusive

\* a node was freed and handed out again, every slot freed at most once
C2_Witness ==
    /\ ~refreed
    /\ \E i \in released : \E j \in Outstanding :
          slots[i].account = slots[j].account
    /\ Cardinality(Outstanding) >= 2

\* C3: alloc(n) fails exactly when n exceeds the number of available nodes,
\* and a failing alloc leaves the queue, the in-use set and the id counter
\* as they were.
C3_AllocExhaustion ==
    last.op = "alloc" =>
        /\ ~last.ok <=> last.n > Len(last.pre.available_nodes)
        /\ ~last.ok => PoolUnchanged /\ last.result = <<>>
        /\ last.ok => Len(last.result) = last.n

\* a 2-node pool, alloc(2) done, alloc(1) failed
C3_Witness ==
    /\ last.op = "alloc" /\ ~last.ok /\ last.n = 1
    /\ N = 2 /\ Len(slots) = 2 /\ freed = {}

\* C4: the slot ids handed out by one pool start at 0 and strictly increase
\* in allocation order, so none is handed out twice, whatever alloc and
\* free_single calls interleave.
C4_SlotIdMonotonic ==
    /\ slots # <<>> => slots[1].slot_id = 0
    /\ \A i \in 1..Len(slots) : \A j \in 1..Len(slots) :
          i < j => slots[i].slot_id < slots[j].slot_id
    /\ \A i \in 1..Len(slots) : slots[i].slot_id < id_supplier

\* three slots handed out one by one with a free in between
C4_Witness ==
    /\ Len(slots) >= 3
    /\ released # {}
    /\ last.op = "alloc" /\ last.ok /\ last.n = 1

\* C5: alloc(n) hands out the first n entries of the available queue in
\* queue order (at first the document order), and free_single puts the
\* freed node at the back of the queue.
C5_Fifo ==
    /\ last.op = "init" => available_nodes = [i \in 1..N |-> i]
    /\ (last.op = "alloc" /\ last.ok) =>
          /\ \A i \in 1..last.n :
                last.result[i].account = last.pre.available_nodes[i]
          /\ available_nodes =
                SubSeq(last.pre.available_nodes, last.n + 1,
                       Len(last.pre.available_nodes))
    /\ (last.op = "free_single" /\ last.ok) =>
          available_nodes =
             Append(last.pre.available_nodes, slots[last.slot].account)

\* nodes [A, B, C]: alloc(1) gave A, A was freed, alloc(1) gave B
C5_Witness ==
    /\ N = 3 /\ Len(slots) = 2
    /\ slots[1].account = 1 /\ released = {1}
    /\ slots[2].account = 2
    /\ last.op = "alloc" /\ last.ok
    /\ available_nodes = <<3, 1>>

\* C6: no account is at once in the available queue and in the in-use set
\* (under account equality), and no account is twice in the available
\* queue.
C6_Disjoint ==
    /\ \A i \in 1..Len(available_nodes) : \A e \in in_use_nodes :
          ~AccountEq(available_nodes[i], e.key)
    /\ \A i \in 1..Len(available_nodes) : \A j \in 1..Len(available_nodes) :
          i # j => ~AccountEq(available_nodes[i], available_nodes[j])

\* C7: free_single(slot) succeeds only when the slot's account is in the
\* in-use set; it then takes the account out of the set and appends it to
\* the back of the queue; when the account is not in the set the call fails
\* and changes nothing.
C7_FreeSingle ==
    last.op = "free_single" =>
        LET a == slots[last.slot].account
            held == {e \in last.pre.in_use_nodes : AccountEq(e.key, a)}
        IN  /\ last.ok =>
                 /\ held # {}
                 /\ in_use_nodes = last.pre.in_use_nodes \ held
                 /\ available_nodes = Append(last.pre.available_nodes, a)
                 /\ id_supplier = last.pre.id_supplier
            /\ held = {} => ~last.ok
            /\ ~last.ok => PoolUnchanged

\* a free that succeeded, then the same slot freed again and refused
C7_Witness ==
    /\ last.op = "free_single" /\ ~last.ok
    /\ last.slot \in released

\* ------------------------------------------------------ expansion claims
Seed == 1

ExpandCalled == lastx.op = "expand"

ReturnedList == lastx.status = "returned" /\ lastx.value.is_list

ReturnedArgs == [i \in 1..Len(lastx.value.items) |->
                    ctxs[lastx.value.items[i]].injected_args]

ReturnedIgnore == [i \in 1..Len(lastx.value.items) |->
                      ctxs[lastx.value.items[i]].ignore]

\* C8: expand() on a function without marks returns the one-element list
\* holding the seed descriptor; expand() on a function carrying a
\* PARAMETRIZE or MATRIX mark returns a list that does not hold the seed.
C8_SeedOnlyWhenUnmarked ==
    (ExpandCalled /\ lastx.tp.none) =>
        /\ ~lastx.pre_fun.has_marks =>
              ReturnedList /\ lastx.value.items = <<Seed>>
        /\ parametrized(lastx.pre_fun) =>
              /\ ReturnedList
              /\ \A i \in 1..Len(lastx.value.items) : lastx.value.items[i] # Seed

\* C9: for k >= 1 stacked @parametrize decorators, expand() returns exactly
\* k descriptors whose injected arguments are those of the decorators read
\* top to bottom (the reverse of the attachment order).
C9_ParametrizeOrder ==
    (/\ ExpandCalled /\ lastx.tp.none /\ lastx.first
     /\ lastx.pre_fun.has_marks
     /\ \A i \in 1..Len(lastx.pre_fun.marks) :
           lastx.pre_fun.marks[i].kind = "Parametrize")
    => LET ms == lastx.pre_fun.marks
           k == Len(ms)
       IN  /\ ReturnedList
           /\ Len(lastx.value.items) = k
           /\ \A i \in 1..k : ReturnedArgs[i] = ms[k + 1 - i].injected_args

\* C10: for @ignore(A) above two @parametrize decorators, expand() returns
\* two descriptors and a descriptor is ignored exactly when its injected
\* arguments equal A; with the argument-less @ignore both are ignored.
C10_IgnoreFiltering ==
    (/\ ExpandCalled /\ lastx.tp.none /\ lastx.first
     /\ Len(lastx.pre_fun.marks) = 3
     /\ lastx.pre_fun.marks[1].kind = "Parametrize"
     /\ lastx.pre_fun.marks[2].kind = "Parametrize"
     /\ lastx.pre_fun.marks[3].name = "IGNORE")
    => LET ig == lastx.pre_fun.marks[3]
       IN  /\ ReturnedList
           /\ Len(lastx.value.items) = 2
           /\ \A i \in 1..2 :
                 ReturnedIgnore[i] <=>
                    (ig.injected_args.none \/ ig.injected_args = ReturnedArgs[i])

\* the product of the matrix mark's value collections, as a set of mappings
MatrixCombos(m) ==
    LET p == cartesian_product_dict(m.matrix)
    IN  {Kw(p[i]) : i \in 1..Len(p)}

RECURSIVE SizeProduct(_)
SizeProduct(d) ==
    IF d = {} THEN 1
    ELSE LET it == CHOOSE x \in d : TRUE
         IN  Len(it[2]) * SizeProduct(d \ {it})

\* C11: expand() on a function decorated with a single @matrix whose value
\* collections have sizes s1..sk returns exactly s1*...*sk descriptors, one
\* per element of the cartesian product, each combination once.
C11_MatrixCardinality ==
    (/\ ExpandCalled /\ lastx.tp.none /\ lastx.first
     /\ Len(lastx.pre_fun.marks) = 1
     /\ lastx.pre_fun.marks[1].kind = "Matrix")
    => LET m == lastx.pre_fun.marks[1]
       IN  /\ ReturnedList
           /\ Len(lastx.value.items) = SizeProduct(m.matrix)
           /\ {ReturnedArgs[i] : i \in 1..Len(lastx.value.items)} = MatrixCombos(m)
           /\ \A i \in 1..Len(lastx.value.items) :
                 \A j \in 1..Len(lastx.value.items) :
                    i # j => ReturnedArgs[i] # ReturnedArgs[j]

\* the ignore flag the ignore marks of f give a descriptor bound to args
IgnoredBy(f, args) ==
    \E i \in 1..Len(f.marks) :
        /\ f.marks[i].name = "IGNORE"
        /\ (f.marks[i].injected_args.none \/ f.marks[i].injected_args = args)

\* C12: expand(test_parameters=P) on a function carrying matrix/parametrize
\* marks (with or without ignore marks) returns exactly one descriptor, bound
\* to P, ignored iff some ignore mark of the function is match-all or equals P.
C12_ParametrizeOverride ==
    (/\ ExpandCalled /\ ~lastx.tp.none /\ lastx.first
     /\ parametrized(lastx.pre_fun))
    => /\ ReturnedList
       /\ Len(lastx.value.items) = 1
       /\ ReturnedArgs[1] = lastx.tp
       /\ ReturnedIgnore[1] <=> IgnoredBy(lastx.pre_fun, lastx.tp)

\* C13: the list expand() returns for @matrix(x=[1, 2], y=[-1, -2]) holds
\* the combinations in the order (1,-1), (1,-2), (2,-1), (2,-2).
C13_MatrixForwardOrder ==
    (/\ ExpandCalled /\ lastx.tp.none /\ lastx.first
     /\ lastx.pre_fun.marks = <<Matrix(MXY)>>)
    => /\ ReturnedList
       /\ ReturnedArgs = << Kw({<<"x", 1>>, <<"y", -1>>}),
                            Kw({<<"x", 1>>, <<"y", -2>>}),
                            Kw({<<"x", 2>>, <<"y", -1>>}),
                            Kw({<<"x", 2>>, <<"y", -2>>}) >>

\* ------------------------------------------------------ stream claims
\* the items not yet returned by next() when the last call was made
Unconsumed == lasts.pre_delivered < Len(channel.lines)

\* C14: over a wrapper on a finite list, under any interleaving of
\* has_next() and next(): the items next() returned are the list's items in
\* order, each once; has_next() moves nothing and returns true exactly when
\* unconsumed items remain; next() returns the next unconsumed item or
\* raises StopIteration when none remains; at most one item pulled from the
\* list is held back, and it is the one in the cache.
C14_LookAhead ==
    ~channel.has_channel =>
        /\ Len(delivered) <= Len(channel.lines)
        /\ delivered = SubSeq(channel.lines, 1, Len(delivered))
        /\ generator.pos - Len(delivered) = (IF cached = Sentinel THEN 0 ELSE 1)
        /\ cached # Sentinel => cached = channel.lines[generator.pos]
        /\ (lasts.op = "has_next" /\ ~lasts.timed) =>
              /\ lasts.out = (IF Unconsumed THEN "True" ELSE "False")
              /\ Len(delivered) = lasts.pre_delivered
        /\ lasts.op = "next" =>
              IF Unconsumed
              THEN /\ lasts.out = "item"
                   /\ lasts.value = channel.lines[lasts.pre_delivered + 1]
                   /\ Len(delivered) = lasts.pre_delivered + 1
              ELSE /\ lasts.out = "StopIteration"
                   /\ Len(delivered) = lasts.pre_delivered

\* a two-item list read to its end, the look-ahead then answering false
C14_Witness ==
    /\ ~channel.has_channel
    /\ Len(channel.lines) = 2
    /\ delivered = channel.lines
    /\ hist.end = "StopIteration"
    /\ lasts.op = "has_next" /\ lasts.out = "False"

\* C15: on a stream returned by ssh_capture, a has_next(timeout_sec) that
\* times out returns false without raising, and does not end the stream:
\* whenever a later next() raises StopIteration or a later has_next()
\* without timeout answers false, every line the command printed has been
\* delivered, in order.
C15_TimeoutIsNotExhaustion ==
    channel.has_channel =>
        /\ lasts.timed_out => lasts.out = "False"
        /\ (/\ hist.timed_out
            /\ lasts.op \in {"next", "has_next"}
            /\ ~lasts.timed
            /\ lasts.out \in {"StopIteration", "False"}) =>
              delivered = channel.lines

\* C16: on a stream returned by ssh_capture, the first end the consumer
\* meets is the remote-execution error exactly when the command exits
\* non-zero and allow_fail is false, otherwise the normal end; either comes
\* only after every line the command printed has been delivered, in order;
\* no line is delivered after it.
C16_ExitCheckOnExhaustion ==
    channel.has_channel =>
        /\ delivered = SubSeq(channel.lines, 1, Len(delivered))
        /\ hist.end = "RuntimeError" =>
              ExitCheckFails(channel) /\ delivered = channel.lines
        /\ hist.end = "StopIteration" =>
              ~ExitCheckFails(channel) /\ delivered = channel.lines
        /\ ~hist.late

\* ------------------------------------------------------ log monitor claims
\* the log content written after byte k
Beyond(k) == SubSeq(log, k + 1, Len(log))

\* C17 as stated: a monitor created when the log is L bytes long has offset
\* L, polls with that offset for its whole life, and a poll succeeds only on
\* a match in the content beyond the first L bytes.
C17_OffsetIsCreationLength ==
    monitor.made =>
        /\ monitor.offset = monitor.created_len
        /\ lastw.op = "poll" =>
              /\ lastw.offset = monitor.offset
              /\ lastw.result => Matches(Beyond(monitor.created_len))

\* C17 amended: the monitor's offset is L when the size probe of monitor_log
\* went through and 0 when it raised; the monitor polls with that offset for
\* its whole life, and a poll succeeds only on a match in the content beyond
\* the offset: beyond the first L bytes after a successful probe, anywhere
\* in the log, pre-existing content included, after a failed one.
C17_OffsetWhenProbed ==
    monitor.made =>
        /\ monitor.offset = (IF monitor.probe_ok THEN monitor.created_len ELSE 0)
        /\ lastw.op = "poll" =>
              /\ lastw.offset = monitor.offset
              /\ lastw.result => Matches(Beyond(monitor.offset))

\* the pattern was in the log when the monitor was created, more was
\* written since, and a poll did not report the old match
C17_Witness ==
    /\ monitor.made /\ monitor.probe_ok
    /\ Matches(SubSeq(log, 1, monitor.created_len))
    /\ Len(log) > monitor.created_len
    /\ lastw.op = "poll" /\ lastw.status = "returned" /\ ~lastw.result

\* ------------------------------------------------------ mark query claims
\* the names of the marks in f's list, and the marks of f that are not
\* parametrize marks, in list order
MarkNamesOf(f) == {f.marks[i].name : i \in 1..Len(f.marks)}

NonParametrize(f) == SelectSeq(f.marks, LAMBDA m : ~is_parametrize_mark(m))

\* C18: after any sequence of mark attachments, clear_marks,
\* _strip_parametrize_marks and expand(test_parameters), the function's
\* mark_names is the set of names of the marks in its list, parametrized(f)
\* is true iff the list holds a PARAMETRIZE or MATRIX mark and ignored(f)
\* iff it holds an IGNORE mark; the list keeps attachment order: an
\* attachment appends, stripping keeps the other marks in order, clearing
\* empties the list, and an override by expand puts the new parametrize
\* mark first and the kept marks after it in their order.
C18_MarkQueriesAgree ==
    /\ fun.mark_names = MarkNamesOf(fun)
    /\ parametrized(fun) <=>
          \E i \in 1..Len(fun.marks) : is_parametrize_mark(fun.marks[i])
    /\ ignored(fun) <=> \E i \in 1..Len(fun.marks) : fun.marks[i].name = "IGNORE"
    /\ lastm.op = "mark" => fun.marks = Append(lastm.pre_fun.marks, lastm.args[1])
    /\ lastm.op = "clear_marks" => fun.marks = <<>>
    /\ lastm.op = "strip" => fun.marks = NonParametrize(lastm.pre_fun)
    /\ lastx.op = "expand" =>
          IF lastx.tp.none THEN fun = lastx.pre_fun
          ELSE fun.marks = <<Parametrize(lastx.tp.kw)>> \o NonParametrize(lastx.pre_fun)

\* expand overrode the parameters of a function carrying parametrize marks
\* and an ignore mark: the new parametrize mark and the ignore mark remain
C18_Witness ==
    /\ lastx.op = "expand" /\ ~lastx.tp.none
    /\ parametrized(lastx.pre_fun) /\ ignored(lastx.pre_fun)
    /\ Len(lastx.pre_fun.marks) = MaxMarks
    /\ Len(fun.marks) = 2
    /\ parametrized(fun) /\ ignored(fun)

\* ------------------------------------------------------ session claims
\* C19: on every account, over any sequence of ssh/ssh_output/ssh_capture
\* and scp_to/scp_from calls: nothing is parsed or connected at
\* construction; at most one parsed config, one established SSH client and
\* one transfer client are ever created, and each stays cached once
\* created; the transfer client is built on the cached SSH client; a call
\* leaves every cache that was filled before it as it was, and a call that
\* returns has filled the cache it reads.
C19_LazySessionCaching ==
    /\ lastu.op = "none" =>
          \A a \in 1..Len(accounts) : accounts[a] = RemoteAccount(accounts[a].desc)
    /\ \A a \in 1..Len(accounts) :
          /\ sessions[a].configs <= 1
          /\ sessions[a].clients <= 1
          /\ sessions[a].scps <= 1
          /\ sessions[a].configs = 0 <=> accounts[a].ssh_config = None
          /\ sessions[a].clients = 0 <=> accounts[a].ssh_client = None
          /\ sessions[a].scps = 0 <=> accounts[a].scp_client = None
          /\ accounts[a].scp_client # None =>
                /\ accounts[a].ssh_client # None
                /\ sessions[a].transport = accounts[a].ssh_client
    /\ lastu.op # "none" =>
          LET now == accounts[lastu.acct]
          IN  /\ lastu.pre.ssh_config # None => now.ssh_config = lastu.pre.ssh_config
              /\ lastu.pre.ssh_client # None => now.ssh_client = lastu.pre.ssh_client
              /\ lastu.pre.scp_client # None => now.scp_client = lastu.pre.scp_client
              /\ (lastu.op = "ssh" /\ lastu.error = "") => now.ssh_client # None
              /\ (lastu.op = "scp" /\ lastu.error = "") => now.scp_client # None

\* a transfer made after a command had run: the transfer client was created
\* on the SSH client the command had connected
C19_Witness ==
    /\ lastu.op = "scp" /\ lastu.error = ""
    /\ lastu.pre.ssh_client # None /\ lastu.pre.scp_client = None
    /\ accounts[lastu.acct].scp_client # None
    /\ uses = MaxUses

\* ------------------------------------------------------ held node claims
\* the node descriptors of the document are pairwise different
DistinctDescs ==
    \A i \in 1..N : \A j \in 1..N : i # j => accounts[i].desc # accounts[j].desc

\* C20: over a document of pairwise different nodes, with no slot passed to
\* free_single twice, a free_single of a slot that alloc returned and that
\* was not freed before succeeds, whatever ssh and scp calls were made on
\* the slot's account since alloc.
C20_HeldNodeReturns ==
    (/\ last.op = "free_single"
     /\ last.slot \notin last.pre.freed
     /\ ~refreed
     /\ DistinctDescs) => last.ok

\* ---------------------------------------------------------------------------
\* The apply methods of the marks
\* ---------------------------------------------------------------------------

\* the last step applied a mark of this kind, and the mark itself
AppliedKind(kinds) == lasta.op = "apply" /\ lasta.marks[1].kind \in kinds

AppliedMark == lasta.marks[1]

\* the descriptors of a list
ListItems(cl) == {cl.items[i] : i \in 1..Len(cl.items)}

\* the descriptors created by the last step
NewCtxs == (Len(lasta.pre_ctxs) + 1)..Len(ctxs)

\* an ignore mark has been applied to a non-empty list before the last step
IgnoreAppliedBefore ==
    \E j \in 1..(lasta.count - 1) : ~is_parametrize_mark(fun.marks[j])

\* C21: Ignore.apply on a non-empty list raises nothing, returns the list it
\* was given (same descriptors, same order, none created), sets the flag of a
\* descriptor of the list when the mark is match-all or its mapping equals the
\* descriptor's injected arguments, keeps a flag that is already true, and
\* leaves every other flag and all injected arguments as they were; a
\* descriptor that a later mark inserts has its flag unset whatever ignore
\* marks were applied before.
C21_IgnoreApply ==
    /\ (AppliedKind({"Ignore", "IgnoreAll"}) /\ Len(lasta.pre_list.items) > 0) =>
          /\ lasta.error = ""
          /\ expander.context_list = lasta.pre_list
          /\ Len(ctxs) = Len(lasta.pre_ctxs)
          /\ \A c \in 1..Len(ctxs) :
                LET old == lasta.pre_ctxs[c]
                    hit == \/ AppliedMark.injected_args.none
                           \/ AppliedMark.injected_args = old.injected_args
                IN  /\ ctxs[c].injected_args = old.injected_args
                    /\ ctxs[c].ignore =
                          IF c \in ListItems(lasta.pre_list) /\ hit
                          THEN TRUE ELSE old.ignore
    /\ (AppliedKind({"Parametrize", "Matrix"}) /\ lasta.error = "") =>
          /\ \A c \in NewCtxs : ~ctxs[c].ignore
          /\ \A c \in 1..Len(lasta.pre_ctxs) : ctxs[c] = lasta.pre_ctxs[c]

\* a mark has inserted a descriptor after an ignore mark flagged the one that
\* was in the list: the new one is not flagged, the old one still is
C21_Witness ==
    /\ AppliedKind({"Parametrize", "Matrix"})
    /\ lasta.error = ""
    /\ IgnoreAppliedBefore
    /\ NewCtxs # {}
    /\ \A c \in NewCtxs : ~ctxs[c].ignore
    /\ \E c \in ListItems(lasta.pre_list) : ctxs[c].ignore

\* a matrix one of whose value collections is empty
HasEmptyCollection(m) == \E it \in m.matrix : Len(it[2]) = 0

IgnoreAppliedFirst ==
    /\ ExpandCalled
    /\ lastx.tp.none
    /\ lastx.pre_fun.has_marks
    /\ parametrized(lastx.pre_fun)
    /\ ~is_parametrize_mark(lastx.pre_fun.marks[1])

\* C23: an ignore mark applied to an empty list (one attached before the
\* parametrize/matrix marks of a parametrized function, hence applied first)
\* makes expand() fail with an AssertionError: nothing is returned, no
\* descriptor is created, and the list stays empty.
C23_IgnoreOnEmptyList ==
    IgnoreAppliedFirst =>
        /\ lastx.status = "raised"
        /\ lastx.error = "AssertionError"
        /\ ctxs = <<SeedContext>>
        /\ expander.context_list = AList(<<>>)

\* expand() has failed on @parametrize over @ignore
C23_Witness ==
    /\ IgnoreAppliedFirst
    /\ lastx.first
    /\ Len(lastx.pre_fun.marks) >= 2
    /\ lastx.pre_fun.marks[2].kind = "Parametrize"
    /\ lastx.error = "AssertionError"

\* the last call was expand() with explicit test_parameters
Overridden == ExpandCalled /\ ~lastx.tp.none

\* the marks of f that are parametrize/matrix marks
ParametrizeMarks(f) == SelectSeq(f.marks, LAMBDA m : is_parametrize_mark(m))

\* C24 as stated: after expand(test_parameters = P) the mark list of the
\* function holds the marks that were not parametrize/matrix marks, in their
\* original order, followed by the one new Parametrize(P) mark.
C24_OverrideParametrizeLast ==
    Overridden =>
        fun.marks = NonParametrize(lastx.pre_fun) \o <<Parametrize(lastx.tp.kw)>>

\* C24, amended: after expand(test_parameters = P) the mark list of the
\* function holds exactly one parametrize/matrix mark, the new Parametrize(P),
\* in first place, followed by every mark that was not a parametrize/matrix
\* mark before the call, once each and in their original relative order.
C24_OverrideParametrizeFirst ==
    Overridden =>
        /\ ParametrizeMarks(fun) = <<Parametrize(lastx.tp.kw)>>
        /\ Head(fun.marks) = Parametrize(lastx.tp.kw)
        /\ Tail(fun.marks) = NonParametrize(lastx.pre_fun)
        /\ fun.mark_names = MarkNamesOf(fun)

\* an override of a function that carried a parametrize/matrix mark between
\* two ignore marks
C24_Witness ==
    /\ Overridden
    /\ lastx.first
    /\ ParametrizeMarks(lastx.pre_fun) # <<>>
    /\ Len(NonParametrize(lastx.pre_fun)) = 2
    /\ ~is_parametrize_mark(lastx.pre_fun.marks[1])
    /\ ~is_parametrize_mark(lastx.pre_fun.marks[3])
    /\ lastx.pre_fun.marks[1] # lastx.pre_fun.marks[3]

\* ---------------------------------------------------------------------------
\* Callers that do not serialize their calls
\* ---------------------------------------------------------------------------

\* the slots alloc has built: those returned and those in the result lists of
\* the calls under way
BuiltSlots == slots \o callers[1].result \o callers[2].result

\* two slots carry the same slot id
DuplicateSlotId ==
    \E i, j \in 1..Len(BuiltSlots) :
        i # j /\ BuiltSlots[i].slot_id = BuiltSlots[j].slot_id

\* the nodes a call under way has still to take from the queue
StillToPop(c) ==
    IF callers[c].pc = "idle" THEN 0
    ELSE IF callers[c].pc = "popleft" THEN callers[c].left
    ELSE callers[c].left - 1

\* the calls that have passed the availability check have more nodes to take
\* than the queue holds
Overcommitted == StillToPop(1) + StillToPop(2) > Len(available_nodes)

\* a call that passed the availability check found the queue empty
PopleftFailed == \E c \in Callers : callers[c].error = "IndexError"

BadState == DuplicateSlotId \/ Overcommitted \/ PopleftFailed

\* C25: as long as alloc and free_single calls are executed one at a time
\* (no caller moves while another is inside alloc), a call that has passed
\* the availability check finds its nodes in the queue and no two slots get
\* the same slot id; the pool itself takes no lock, so that calls which
\* interleave at the steps of alloc reach states where this fails
\* (C25_Witness).
C25_SerializedCallsAreSafe == ~overlapped => ~BadState

\* two alloc calls have interleaved: two slots carry the same slot id, and
\* both callers are past the availability check with too few nodes queued
C25_Witness ==
    /\ overlapped
    /\ \A c \in Callers : callers[c].pc # "idle"
    /\ DuplicateSlotId
    /\ Overcommitted

====
